---- MODULE Spec2Model ----
(***************************************************************************)
(* Workflow execution engine: workflow manager, graph runtime, the three   *)
(* step handlers and the step-run journal written around every handler.    *)
(*                                                                         *)
(* One request (a "turn") is Start -> (BeginWrite -> Handler -> Route)*    *)
(* -> Reply, or it ends in Propagate when an exception leaves the request. *)
(***************************************************************************)
EXTENDS Integers, Sequences, FiniteSets, TLC

\* ------------------------------------------------------------------ bounds
MaxId == 3            \* a request is accepted while fewer than MaxId step-run ids were drawn
MaxSteps == 4         \* handler invocations per turn before the graph runtime gives up
MaxParallelId == 2    \* the same, while requests are served in parallel
MaxManagers == 2      \* WorkflowManager instances made while the memoised lookup is explored
MaxEntries == 2       \* a lookup that misses is explored while the cache holds fewer entries

\* ------------------------------------------------------------- vocabulary
NULL == "<null>"      \* Python None
ABSENT == "<absent>"  \* key not present in a dict
END == "__end__"      \* langgraph END

Slots == {1, 2}       \* places for requests in flight
Sequential == {1}     \* the one place used when requests are served one at a time
Runs == {"r1", "r2"}

\* TaskState values (a2a.types.TaskState)
Working == "working"
InputRequired == "input-required"
Completed == "completed"
Failed == "failed"
Canceled == "canceled"

\* keys that can occur in the scratchpad (workflow_state.workflow_state) and in input_data
Keys == {"sel", "ans", "confirm_action", "token", "user_id",
         "workflow_name", "workflow_id", "execution_phase"}

EmptyDict == [k \in Keys |-> ABSENT]

Has(d, k) == d[k] # ABSENT
NonEmpty(d) == \E k \in Keys : Has(d, k)
Range(s) == {s[i] : i \in 1..Len(s)}

\* str.lower() on the texts a caller sends and on the exit keywords
Lower(t) ==
  CASE t = "QUIT" -> "quit"
    [] t = "Quit" -> "quit"
    [] t = "No" -> "no"
    [] t = "N" -> "n"
    [] OTHER -> t

\* str(value) as Jinja renders it into a condition
Str(v) == IF v = NULL THEN "None" ELSE v

\* --------------------------------------------------------------- catalogue
\* An orchestration rule {condition, go_to_step}.  The condition compares one
\* template variable with a constant:  quoted:   '{{ var }}' == 'const'
\*                                     unquoted:  {{ var }}  == 'const'
Rule(var, const, quoted, target) ==
  [var |-> var, const |-> const, quoted |-> quoted, go_to_step |-> target]

UserInput(id, next, msg, expected, rules) ==
  [step_id |-> id, type |-> "USER_INPUT", next_step_id |-> next, user_message |-> msg,
   expected_data_key |-> expected, orchestration_rules |-> rules,
   name |-> NULL, inputs |-> FALSE, output_mapping |-> <<>>, success_mapping |-> FALSE]

SystemAction(id, next, tool, inputs, outmap, succmap) ==
  [step_id |-> id, type |-> "SYSTEM_ACTION", next_step_id |-> next, user_message |-> NULL,
   expected_data_key |-> <<>>, orchestration_rules |-> <<>>,
   name |-> tool, inputs |-> inputs, output_mapping |-> outmap, success_mapping |-> succmap]

FinalResponse(id, next, msg) ==
  [step_id |-> id, type |-> "FINAL_RESPONSE", next_step_id |-> next, user_message |-> msg,
   expected_data_key |-> <<>>, orchestration_rules |-> <<>>,
   name |-> NULL, inputs |-> FALSE, output_mapping |-> <<>>, success_mapping |-> FALSE]

\* SWAP: lookup, prompt with four rules, a system action without inputs whose
\* output_mapping writes the keys token and user_id, final response.
SwapSteps == <<
  SystemAction("G", "A", "lookup", TRUE, <<"ans">>, FALSE),
  UserInput("A", "S", "ask", <<"sel">>,
            << Rule("sel", "x", TRUE, "F"),
               Rule("ans", "x", TRUE, "G"),
               Rule("sel", "y", TRUE, "S"),
               Rule("sel", "hello", TRUE, "A") >>),
  SystemAction("S", "F", "swap", FALSE, <<"token", "user_id">>, FALSE),
  FinalResponse("F", NULL, "done") >>

\* CONF: confirmation prompt with an unquoted condition, a system action with a
\* success_mapping, a final response without user_message, and a final response
\* that only a rule leads to.
ConfSteps == <<
  UserInput("C", "U", "confirm", <<"confirm_action", "sel">>,
            << Rule("confirm_action", "go", FALSE, "E"),
               Rule("sel", "x", TRUE, "E"),
               Rule("sel", "y", TRUE, "X") >>),
  SystemAction("U", "E", "apply", FALSE, <<>>, TRUE),
  FinalResponse("E", NULL, NULL),
  FinalResponse("X", NULL, "bye") >>

Catalogue == [
  SWAP |-> [workflow_id |-> "SWAP", name |-> "Swap", workflow_exit_keywords |-> {"quit"},
            roles |-> {"sales"}, steps |-> SwapSteps],
  CONF |-> [workflow_id |-> "CONF", name |-> "Confirm", workflow_exit_keywords |-> {"Quit"},
            roles |-> {"admin"}, steps |-> ConfSteps] ]

\* the workflow ids a request can carry: the catalogue's and one it does not know
RequestIds == {"SWAP", "CONF", "GHOST"}
WorkflowIds == DOMAIN Catalogue
StepIds == {"G", "A", "S", "F", "C", "U", "E", "X"}

\* identity: what get_user_info answers for a token
Tokens == {"tok_admin", "tok_sales"}
UserOf(token) == IF token = "tok_admin" THEN "uid_admin" ELSE "uid_sales"
RolesOf(token) == IF token = "tok_admin" THEN {"sales", "admin"} ELSE {"sales"}

\* what a caller can send: free text and input-data
Texts == {"hello", "QUIT", "No"}
Datas == { [EmptyDict EXCEPT !["sel"] = "x"],
           [EmptyDict EXCEPT !["sel"] = "y"],
           [EmptyDict EXCEPT !["sel"] = "z"],
           [EmptyDict EXCEPT !["sel"] = "y", !["ans"] = "x"] }
Inputs == {<<t, EmptyDict>> : t \in Texts} \cup {<<NULL, d>> : d \in Datas}
            \cup {<<"No", [EmptyDict EXCEPT !["sel"] = "x"]>>}

\* what the callers send while requests are served in parallel
ParallelInputs == {<<NULL, [EmptyDict EXCEPT !["sel"] = "z"]>>}

\* what the tool server can answer to one call
ToolOutcomes == {"ok_x", "ok_null", "mapped_error", "timeout", "transport"}

\* ------------------------------------------------------------ run state
\* output values: {} and the bodies the handlers build
NoOutput == [kind |-> "empty", a |-> NULL, b |-> NULL]
Rendered(msg) == [kind |-> "rendered", a |-> msg, b |-> NULL]
TerminatedSummary(id, name) == [kind |-> "summary: Workflow <id> (<name>) terminated.", a |-> id, b |-> name]
DeclinedSummary == [kind |-> "summary: Action cancelled by user", a |-> NULL, b |-> NULL]
TimeoutSummary(tool) == [kind |-> "summary: Tool execution timeout: <name>", a |-> tool, b |-> NULL]
ErrorSummary(text) == [kind |-> "summary: <error text>", a |-> text, b |-> NULL]

\* what the last handler did (observation only, read by no operation)
NoTrace == [mode |-> "none", evaluated |-> {}, rules_ws |-> EmptyDict, outcome |-> NULL]

\* WorkflowState dataclass plus the request fields and the position in the turn
IdleState == [
  pc |-> "idle",
  request_workflow_id |-> NULL,
  input |-> NULL, input_data |-> EmptyDict, token |-> NULL,
  workflow_id |-> NULL, workflow_run_id |-> NULL, workflow_name |-> NULL,
  worflow_exit_keywords |-> {},
  current_step_run_id |-> 0, go_to_step_id |-> NULL,
  workflow_state |-> EmptyDict, task_state |-> Working, output |-> NoOutput,
  start_step_id |-> NULL, is_new_conversation |-> TRUE, user_id |-> NULL,
  cur |-> NULL, via |-> "none", nsteps |-> 0, started_at |-> 0,
  trace |-> NoTrace ]

StepsOf(wf) == Catalogue[wf].steps
StepIdsOf(wf) == [i \in 1..Len(StepsOf(wf)) |-> StepsOf(wf)[i].step_id]
StepDetail(wf, id) == CHOOSE st \in Range(StepsOf(wf)) : st.step_id = id
IndexOf(seq, x) == CHOOSE i \in 1..Len(seq) : seq[i] = x /\ \A j \in 1..(i-1) : seq[j] # x

\* ------------------------------------------------------- USER_INPUT handler
\* variant: the exit keywords compared without .lower()
ExitKeywordHitCaseSensitive(text, keywords) ==
  text # NULL /\ text \in keywords

\* workflow_input_text and workflow_input_text.lower() in [k.lower() for k in keywords]
ExitKeywordHit(text, keywords) ==
  text # NULL /\ \E k \in keywords : Lower(text) = Lower(k)

\* variant: the selector without the go_to_step_id test
IsResumeIgnoringGoTo(step, st) ==
  /\ ~st.is_new_conversation
  /\ step.step_id = st.start_step_id

\* variant: the selector without the is_new_conversation test
IsResumeInNewConversation(step, st) ==
  /\ step.step_id = st.start_step_id
  /\ st.go_to_step_id = NULL

\* the Resume / Prompt selector
IsResume(step, st) ==
  /\ ~st.is_new_conversation
  /\ step.step_id = st.start_step_id
  /\ st.go_to_step_id = NULL

\* variant: an ingest that copies every key of input-data
IngestReplyAllKeys(step, ws, text, data) ==
  LET expected == step.expected_data_key IN
  IF NonEmpty(data) /\ Len(expected) > 0
    THEN [k \in Keys |-> IF Has(data, k) THEN data[k] ELSE ws[k]]
  ELSE IF text # NULL /\ Len(expected) >= 1
    THEN [ws EXCEPT ![expected[1]] = text]
  ELSE ws

\* copy the user's reply into the scratchpad
IngestReply(step, ws, text, data) ==
  LET expected == step.expected_data_key IN
  IF NonEmpty(data) /\ Len(expected) > 0
    THEN [k \in Keys |-> IF k \in Range(expected) /\ Has(data, k) THEN data[k] ELSE ws[k]]
  ELSE IF text # NULL /\ Len(expected) >= 1
    THEN [ws EXCEPT ![expected[1]] = text]
  ELSE ws

\* the confirm_action special case sits inside the free-text branch
DeclinesConfirmation(step, text, data) ==
  LET expected == step.expected_data_key IN
  /\ ~(NonEmpty(data) /\ Len(expected) > 0)
  /\ text # NULL /\ Len(expected) >= 1
  /\ expected[1] = "confirm_action"
  /\ Lower(text) \in {"no", "n"}

\* template.render(context) followed by eval(): "true", "false" or "error".
\* Quoted, the rendered text compares two string literals.  Unquoted, the rendered
\* value stands as a Python expression: None evaluates, a bare word is an
\* undefined name.
EvalCondition(rule, ws) ==
  IF rule.quoted
    THEN IF Str(ws[rule.var]) = rule.const THEN "true" ELSE "false"
  ELSE IF ws[rule.var] = NULL THEN "false"
  ELSE "error"

NoRulesRun == [raised |-> FALSE, go_to |-> NULL, last |-> 0, evaluated |-> {}]

\* variant: the for-loop without its break, a later true rule overwriting go_to_step_id
RECURSIVE RunRulesNoBreak(_, _, _, _)
RunRulesNoBreak(rules, ws, i, acc) ==
  IF i > Len(rules) THEN acc
  ELSE LET rule == rules[i]
           seen == [acc EXCEPT !.last = i]
       IN IF ~Has(ws, rule.var)
            THEN RunRulesNoBreak(rules, ws, i + 1, seen)
          ELSE LET verdict == EvalCondition(rule, ws)
                   done == [seen EXCEPT !.evaluated = @ \cup {i}]
               IN IF verdict = "error" THEN [done EXCEPT !.raised = TRUE]
                  ELSE IF verdict = "true"
                    THEN RunRulesNoBreak(rules, ws, i + 1, [done EXCEPT !.go_to = rule.go_to_step])
                  ELSE RunRulesNoBreak(rules, ws, i + 1, done)

\* variant: the for-loop leaving at the first rule with a missing variable
RECURSIVE RunRulesStopAtMissing(_, _, _, _)
RunRulesStopAtMissing(rules, ws, i, acc) ==
  IF i > Len(rules) THEN acc
  ELSE LET rule == rules[i]
           seen == [acc EXCEPT !.last = i]
       IN IF ~Has(ws, rule.var)
            THEN seen
          ELSE LET verdict == EvalCondition(rule, ws)
                   done == [seen EXCEPT !.evaluated = @ \cup {i}]
               IN IF verdict = "error" THEN [done EXCEPT !.raised = TRUE]
                  ELSE IF verdict = "true" THEN [done EXCEPT !.go_to = rule.go_to_step]
                  ELSE RunRulesStopAtMissing(rules, ws, i + 1, done)

\* the for-loop over orchestration_rules, from rule i on
RECURSIVE RunRules(_, _, _, _)
RunRules(rules, ws, i, acc) ==
  IF i > Len(rules) THEN acc
  ELSE LET rule == rules[i]
           seen == [acc EXCEPT !.last = i]   \* template_variables now names rule i
       IN IF ~Has(ws, rule.var)
            THEN RunRules(rules, ws, i + 1, seen)                 \* missing_vars: continue
          ELSE LET verdict == EvalCondition(rule, ws)
                   done == [seen EXCEPT !.evaluated = @ \cup {i}]
               IN IF verdict = "error" THEN [done EXCEPT !.raised = TRUE]
                  ELSE IF verdict = "true" THEN [done EXCEPT !.go_to = rule.go_to_step]
                  ELSE RunRules(rules, ws, i + 1, done)

\* for temp_var in template_variables: the variables of the rule iterated last
ResetVariables(rules, last) == IF last = 0 THEN {} ELSE {rules[last].var}

ResetRuleVariables(d, rules, last) ==
  [k \in Keys |-> IF k \in ResetVariables(rules, last) THEN NULL ELSE d[k]]

\* the exception a handler can leave with: str(e) and type(e).__name__
NoException == [error |-> NULL, exception_type |-> NULL]
InvalidRule == [error |-> "Invalid orchestration rule data", exception_type |-> "ValueError"]
NoTemplate == [error |-> "Can't compile non template nodes", exception_type |-> "TypeError"]
NoInputsBag == [error |-> "'WorkflowState' object has no attribute 'inputs'",
                exception_type |-> "AttributeError"]

Returned(st) == [raised |-> FALSE, st |-> st, exc |-> NoException]
Raised(st, exc) == [raised |-> TRUE, st |-> st, exc |-> exc]

ResumeMode(step, st) ==
  LET ingested == IngestReply(step, st.workflow_state, st.input, st.input_data)
      rules == step.orchestration_rules
      run == RunRules(rules, ingested, 1, NoRulesRun)
      tr == [NoTrace EXCEPT !.mode = "resume", !.evaluated = run.evaluated, !.rules_ws = ingested]
  IN IF DeclinesConfirmation(step, st.input, st.input_data)
       THEN Returned([st EXCEPT !.workflow_state = ingested, !.task_state = Canceled,
                                !.output = DeclinedSummary,
                                !.trace = [NoTrace EXCEPT !.mode = "decline"]])
     ELSE IF run.raised
       THEN Raised([st EXCEPT !.workflow_state = ingested, !.trace = tr], InvalidRule)
     ELSE Returned([st EXCEPT
            !.workflow_state = ResetRuleVariables(ingested, rules, run.last),
            !.input_data = ResetRuleVariables(st.input_data, rules, run.last),
            !.go_to_step_id = run.go_to,
            !.task_state = Completed,
            !.trace = tr])

\* variant: a prompt that leaves task_state as the request set it
PromptModeStillWorking(step, st) ==
  LET cleared == [st EXCEPT !.go_to_step_id = NULL, !.trace = [NoTrace EXCEPT !.mode = "prompt"]] IN
  IF step.user_message = NULL
    THEN Raised(cleared, NoTemplate)
  ELSE Returned([cleared EXCEPT !.output = Rendered(step.user_message)])

PromptMode(step, st) ==
  LET cleared == [st EXCEPT !.go_to_step_id = NULL, !.trace = [NoTrace EXCEPT !.mode = "prompt"]] IN
  IF step.user_message = NULL
    THEN Raised(cleared, NoTemplate)          \* Environment().from_string(None)
  ELSE Returned([cleared EXCEPT !.output = Rendered(step.user_message),
                                !.task_state = InputRequired])

UserInputWithStep(step, st) ==
  IF ExitKeywordHit(st.input, st.worflow_exit_keywords)
    THEN Returned([st EXCEPT !.task_state = Canceled,
                             !.output = TerminatedSummary(st.workflow_id, st.workflow_name),
                             !.trace = [NoTrace EXCEPT !.mode = "exit"]])
  ELSE IF IsResume(step, st) THEN ResumeMode(step, st)
  ELSE PromptMode(step, st)

\* ---------------------------------------------------- SYSTEM_ACTION handler
\* workflow_state["token"] = token; workflow_state["user_id"] = user_id
WithIdentity(ws, token, user_id) == [ws EXCEPT !["token"] = token, !["user_id"] = user_id]

\* variant: the two del statements left out
KeepIdentity(ws) == ws

\* del workflow_state["token"]; del workflow_state["user_id"]
ScrubIdentity(ws) == [ws EXCEPT !["token"] = ABSENT, !["user_id"] = ABSENT]

\* variant: only user_id deleted after parameter resolution
ResolveParamsKeepToken(step, st) ==
  IF step.inputs
    THEN [WithIdentity(st.workflow_state, st.token, st.user_id) EXCEPT !["user_id"] = ABSENT]
  ELSE st.workflow_state

\* the scratchpad after parameter resolution (if tool_params: ...)
ResolveParams(step, st) ==
  IF step.inputs
    THEN ScrubIdentity(WithIdentity(st.workflow_state, st.token, st.user_id))
  ELSE st.workflow_state

\* the value a json-path of output_mapping finds in the tool reply
Extracted(outcome) == IF outcome = "ok_x" THEN "x" ELSE NULL

\* json.dumps(value)[1:-1] for a string, the value itself otherwise
Escape(v) == IF v = "q\"q" THEN "q\\\"q" ELSE v

ApplyOutputMapping(ws, mapping, outcome) ==
  [k \in Keys |-> IF k \in Range(mapping) THEN Escape(Extracted(outcome)) ELSE ws[k]]

SystemControlWithStep(step, st, outcome) ==
  LET resolved == [st EXCEPT !.workflow_state = ResolveParams(step, st),
                             !.trace = [NoTrace EXCEPT !.mode = "system", !.outcome = outcome]]
  IN CASE outcome = "timeout" ->
            Returned([resolved EXCEPT !.task_state = Failed, !.output = TimeoutSummary(step.name)])
       [] outcome = "transport" ->
            Returned([resolved EXCEPT !.task_state = Failed, !.output = ErrorSummary("transport")])
       [] outcome = "mapped_error" ->
            Returned([resolved EXCEPT !.task_state = Failed, !.output = ErrorSummary("error_message")])
       [] OTHER ->
            IF step.success_mapping
              THEN Raised(resolved, NoInputsBag)   \* workflow_state.inputs: no such attribute
            ELSE Returned([resolved EXCEPT
                   !.workflow_state = ApplyOutputMapping(@, step.output_mapping, outcome),
                   !.task_state = Completed])

\* --------------------------------------------------- FINAL_RESPONSE handler
\* variant: a final response that leaves go_to_step_id as it found it
FinalResponseKeepGoTo(step, st) ==
  LET kept == [st EXCEPT !.trace = [NoTrace EXCEPT !.mode = "final"]] IN
  IF step.user_message = NULL
    THEN Returned([kept EXCEPT !.task_state = Failed])
  ELSE Returned([kept EXCEPT !.output = Rendered(step.user_message), !.task_state = Completed])

FinalResponseWithStep(step, st) ==
  LET cleared == [st EXCEPT !.go_to_step_id = NULL, !.trace = [NoTrace EXCEPT !.mode = "final"]] IN
  IF step.user_message = NULL
    THEN Returned([cleared EXCEPT !.task_state = Failed])
  ELSE Returned([cleared EXCEPT !.output = Rendered(step.user_message), !.task_state = Completed])

\* the node registered for a step (unknown types default to the system action)
RunHandler(step, st, outcome) ==
  CASE step.type = "USER_INPUT" -> UserInputWithStep(step, st)
    [] step.type = "FINAL_RESPONSE" -> FinalResponseWithStep(step, st)
    [] OTHER -> SystemControlWithStep(step, st, outcome)

\* the tool is called by system actions only
OutcomesFor(step) == IF step.type \in {"USER_INPUT", "FINAL_RESPONSE"} THEN {NULL} ELSE ToolOutcomes

\* ------------------------------------------------------------ graph runtime
\* step_ids_used_for_edges
EdgeScope(step_ids, start_step_id) ==
  IF start_step_id \in Range(step_ids)
    THEN {step_ids[i] : i \in IndexOf(step_ids, start_step_id)..Len(step_ids)}
  ELSE Range(step_ids)

\* variant: a router that looks at task_state before go_to_step_id
ShouldContinueStatusFirst(st, next_step_id, scope) ==
  IF st.task_state \in {InputRequired, Failed, Canceled} THEN [target |-> END, st |-> st]
  ELSE IF st.go_to_step_id # NULL
    THEN [target |-> st.go_to_step_id, st |-> [st EXCEPT !.go_to_step_id = NULL]]
  ELSE IF next_step_id # NULL /\ next_step_id \in scope THEN [target |-> next_step_id, st |-> st]
  ELSE [target |-> END, st |-> st]

\* should_continue: the successor and the state as the function leaves it
ShouldContinue(st, next_step_id, scope) ==
  IF st.go_to_step_id # NULL
    THEN [target |-> st.go_to_step_id, st |-> [st EXCEPT !.go_to_step_id = NULL]]
  ELSE IF st.task_state = InputRequired THEN [target |-> END, st |-> st]
  ELSE IF st.task_state \in {Failed, Canceled} THEN [target |-> END, st |-> st]
  ELSE IF next_step_id # NULL /\ next_step_id \in scope THEN [target |-> next_step_id, st |-> st]
  ELSE [target |-> END, st |-> st]

\* ------------------------------------------------------------------ journal
\* json.dumps of a scratchpad, and the document read back
JsonDumps(ws) ==
  {<<k, IF ws[k] = NULL THEN <<"null", "">> ELSE <<"string", ws[k]>> >> : k \in {x \in Keys : Has(ws, x)}}

JsonLoads(doc) ==
  [k \in Keys |-> IF \E p \in doc : p[1] = k
                    THEN LET p == CHOOSE q \in doc : q[1] = k
                         IN IF p[2][1] = "null" THEN NULL ELSE p[2][2]
                  ELSE ABSENT]

\* the two shapes stored in the workflow_state column
StateSnapshot(ws) == [shape |-> "state", doc |-> JsonDumps(ws)]
ErrorSnapshot(ws) == [shape |-> "error", doc |-> JsonDumps(ws)]

\* variant: a finish write without the canceled branch
FinishStatusNoCanceled(task_state) ==
  CASE task_state = Failed -> Failed
    [] task_state = Working -> Working
    [] task_state = InputRequired -> InputRequired
    [] OTHER -> Completed

\* status of the finish write
FinishStatus(task_state) ==
  CASE task_state = Failed -> Failed
    [] task_state = Canceled -> Canceled
    [] task_state = Working -> Working
    [] task_state = InputRequired -> InputRequired
    [] OTHER -> Completed

\* final_workflow_state["execution_phase"] = ...
WithExecutionPhase(ws, task_state) ==
  CASE task_state = Failed -> [ws EXCEPT !["execution_phase"] = "FAILED"]
    [] task_state = Canceled -> [ws EXCEPT !["execution_phase"] = "CANCELED"]
    [] OTHER -> ws

\* variant: rows written under one workflow-run-id, whatever the request's task-id
RowOfOneRun(st, step_id, started, completed, status, snapshot, success, error, updated) ==
  [workflow_run_id |-> "r1", workflow_id |-> st.workflow_id,
   step_id |-> step_id, started_at |-> started, completed_at |-> completed,
   status |-> status, workflow_state |-> snapshot,
   success_response |-> success, error_response |-> error,
   created_at |-> started, updated_at |-> updated]

\* a row as the VALUES clause of the three statements builds it
Row(st, step_id, started, completed, status, snapshot, success, error, updated) ==
  [workflow_run_id |-> st.workflow_run_id, workflow_id |-> st.workflow_id,
   step_id |-> step_id, started_at |-> started, completed_at |-> completed,
   status |-> status, workflow_state |-> snapshot,
   success_response |-> success, error_response |-> error,
   created_at |-> started, updated_at |-> updated]

Insert(j, id, row) == [i \in DOMAIN j \cup {id} |-> IF i = id THEN row ELSE j[i]]

\* variant: an initial upsert whose conflict branch leaves the status column alone
InitialUpsertKeepStatus(j, id, row) ==
  IF id \in DOMAIN j
    THEN [j EXCEPT ![id] = [@ EXCEPT !.started_at = row.started_at,
                                     !.workflow_state = row.workflow_state,
                                     !.updated_at = row.created_at]]
  ELSE Insert(j, id, [row EXCEPT !.updated_at = 0])

\* initial_upsert_query: INSERT ... ON CONFLICT (step_run_id) DO UPDATE SET ...
InitialUpsert(j, id, row) ==
  IF id \in DOMAIN j
    THEN [j EXCEPT ![id] = [@ EXCEPT !.started_at = row.started_at,
                                     !.status = row.status,
                                     !.workflow_state = row.workflow_state,
                                     !.updated_at = row.created_at]]
  ELSE Insert(j, id, [row EXCEPT !.updated_at = 0])

\* variant: a completion upsert with ON CONFLICT DO NOTHING
CompletionUpsertFirstWriteWins(j, id, row) ==
  IF id \in DOMAIN j THEN j ELSE Insert(j, id, row)

\* completion_upsert_query
CompletionUpsert(j, id, row) ==
  IF id \in DOMAIN j
    THEN [j EXCEPT ![id] = [@ EXCEPT !.completed_at = row.completed_at,
                                     !.status = row.status,
                                     !.workflow_state = row.workflow_state,
                                     !.success_response = row.success_response,
                                     !.error_response = row.error_response,
                                     !.updated_at = row.updated_at]]
  ELSE Insert(j, id, row)

\* variant: an error upsert whose conflict branch leaves the status column alone
ErrorUpsertKeepStatus(j, id, row) ==
  IF id \in DOMAIN j
    THEN [j EXCEPT ![id] = [@ EXCEPT !.completed_at = row.completed_at,
                                     !.workflow_state = row.workflow_state,
                                     !.error_response = row.error_response,
                                     !.updated_at = row.updated_at]]
  ELSE Insert(j, id, row)

\* error_upsert_query
ErrorUpsert(j, id, row) ==
  IF id \in DOMAIN j
    THEN [j EXCEPT ![id] = [@ EXCEPT !.completed_at = row.completed_at,
                                     !.status = row.status,
                                     !.workflow_state = row.workflow_state,
                                     !.error_response = row.error_response,
                                     !.updated_at = row.updated_at]]
  ELSE Insert(j, id, row)

\* variant: a fresh step-run id drawn after a completed step only
RegenerateAfterCompleted(task_state, current, fresh) ==
  IF task_state = Completed THEN fresh ELSE current

\* variant: the step-run id kept for the next step of the turn
KeepStepRunId(task_state, current, fresh) == current

\* if result_state.task_state != input_required: current_step_run_id = uuid4()
RegenerateStepRunId(task_state, current, fresh) ==
  IF task_state # InputRequired THEN fresh ELSE current

\* the pending input-required row of a run, the latest one
NoPending == [found |-> FALSE, workflow_id |-> NULL, step_id |-> NULL, step_run_id |-> 0,
              workflow_state |-> EmptyDict]

GetInputRequiredStep(j, run) ==
  LET pending == {i \in DOMAIN j : j[i].workflow_run_id = run /\ j[i].status = InputRequired} IN
  IF pending = {} THEN NoPending
  ELSE LET id == CHOOSE i \in pending : \A k \in pending :
                   \/ k = i
                   \/ j[k].completed_at < j[i].completed_at
                   \/ (j[k].completed_at = j[i].completed_at /\ k < i)
       IN [found |-> TRUE, workflow_id |-> j[id].workflow_id, step_id |-> j[id].step_id,
           step_run_id |-> id, workflow_state |-> JsonLoads(j[id].workflow_state.doc)]

\* ---------------------------------------------------------- workflow manager
\* the catalogue answers only when one of the caller's roles is authorised
GetStepsByWorkflowId(workflow_id, user_roles) ==
  IF workflow_id \in WorkflowIds /\ Catalogue[workflow_id].roles \cap user_roles # {}
    THEN [found |-> TRUE, workflow_id |-> workflow_id]
  ELSE [found |-> FALSE, workflow_id |-> workflow_id]

\* next_step_ids, and the first step_id that is not among them
NextStepIds(steps) == {steps[i].next_step_id : i \in 1..Len(steps)} \ {NULL}

\* variant: the last step_id that is not among next_step_ids
LastFreeStep(steps) ==
  LET free == {i \in 1..Len(steps) : steps[i].step_id \notin NextStepIds(steps)} IN
  IF free = {} THEN NULL
  ELSE steps[CHOOSE i \in free : \A k \in free : i >= k].step_id

FirstStep(steps) ==
  LET free == {i \in 1..Len(steps) : steps[i].step_id \notin NextStepIds(steps)} IN
  IF free = {} THEN NULL
  ELSE steps[CHOOSE i \in free : \A k \in free : i <= k].step_id

\* variant: the pending row's snapshot not taken over
AdoptPendingBlank(pending, workflow_id) ==
  IF pending.found
    THEN [start_step_id |-> pending.step_id, workflow_id |-> pending.workflow_id,
          step_run_id |-> pending.step_run_id, workflow_state |-> EmptyDict,
          is_new_conversation |-> FALSE]
  ELSE [start_step_id |-> NULL, workflow_id |-> workflow_id, step_run_id |-> 0,
        workflow_state |-> EmptyDict, is_new_conversation |-> TRUE]

\* variant: the pending row's step-run id not taken over
AdoptPendingFreshId(pending, workflow_id) ==
  IF pending.found
    THEN [start_step_id |-> pending.step_id, workflow_id |-> pending.workflow_id,
          step_run_id |-> 0, workflow_state |-> pending.workflow_state,
          is_new_conversation |-> FALSE]
  ELSE [start_step_id |-> NULL, workflow_id |-> workflow_id, step_run_id |-> 0,
        workflow_state |-> EmptyDict, is_new_conversation |-> TRUE]

\* variant: the pending row's workflow id not taken over
AdoptPendingKeepRequestId(pending, workflow_id) ==
  IF pending.found
    THEN [start_step_id |-> pending.step_id, workflow_id |-> workflow_id,
          step_run_id |-> pending.step_run_id, workflow_state |-> pending.workflow_state,
          is_new_conversation |-> FALSE]
  ELSE [start_step_id |-> NULL, workflow_id |-> workflow_id, step_run_id |-> 0,
        workflow_state |-> EmptyDict, is_new_conversation |-> TRUE]

\* the resume probe's result taken over the request's values
AdoptPending(pending, workflow_id) ==
  IF pending.found
    THEN [start_step_id |-> pending.step_id, workflow_id |-> pending.workflow_id,
          step_run_id |-> pending.step_run_id, workflow_state |-> pending.workflow_state,
          is_new_conversation |-> FALSE]
  ELSE [start_step_id |-> NULL, workflow_id |-> workflow_id, step_run_id |-> 0,
        workflow_state |-> EmptyDict, is_new_conversation |-> TRUE]

\* if not workflow_state_data.get("workflow_name"): ...
WithWorkflowName(ws, workflow_id, name) ==
  IF ws["workflow_name"] \in {ABSENT, NULL}
    THEN [ws EXCEPT !["workflow_name"] = name, !["workflow_id"] = workflow_id]
  ELSE ws

\* variant: a lookup result refused only for an id the catalogue does not know
NotFoundOnlyIfUnknown(workflow) == workflow.workflow_id \notin WorkflowIds

\* if not workflow: raise ValueError("Workflow ... not found or access denied ...")
WorkflowNotFound(workflow) == ~workflow.found

\* process_workflow up to the WorkflowState it hands to the runtime
SeedState(j, run, workflow_id, token, text, data, flag) ==
  LET adopted == AdoptPending(GetInputRequiredStep(j, run), workflow_id)
      workflow == GetStepsByWorkflowId(adopted.workflow_id, RolesOf(token))
      request == [IdleState EXCEPT !.request_workflow_id = workflow_id,
                                   !.input = text, !.input_data = data, !.token = token,
                                   !.workflow_run_id = run]
  IN IF WorkflowNotFound(workflow)
       THEN [request EXCEPT !.pc = "raised", !.workflow_id = adopted.workflow_id,
                            !.trace = [NoTrace EXCEPT !.mode = "workflow-not-found"]]
     ELSE LET def == Catalogue[adopted.workflow_id]
              start == IF adopted.start_step_id = NULL THEN FirstStep(def.steps)
                       ELSE adopted.start_step_id
          IN [request EXCEPT
                !.pc = "begin",
                !.workflow_id = adopted.workflow_id,
                !.workflow_name = def.name,
                !.worflow_exit_keywords = def.workflow_exit_keywords,
                !.workflow_state = WithWorkflowName(adopted.workflow_state, adopted.workflow_id, def.name),
                !.task_state = Working,
                !.output = NoOutput,
                !.current_step_run_id = adopted.step_run_id,
                !.start_step_id = start,
                !.is_new_conversation = adopted.is_new_conversation,
                !.user_id = UserOf(token),
                !.cur = start,
                !.via = "entry"]

\* the reply the request adaptor wraps
ReplyOf(st) == [output |-> st.output, task_state |-> st.task_state,
                workflow_id |-> st.workflow_id, workflow_name |-> st.workflow_name,
                metadata_workflow_id |-> st.request_workflow_id]

\* how the last turn of a run ended (observation only)
NoEnd == [task_state |-> NULL, step_id |-> NULL, step_run_id |-> 0,
          workflow_id |-> NULL, workflow_state |-> EmptyDict]

EndOf(st) == [task_state |-> st.task_state, step_id |-> st.cur,
              step_run_id |-> st.current_step_run_id,
              workflow_id |-> st.workflow_id, workflow_state |-> st.workflow_state]

\* --------------------------------------------------- memoised catalogue lookup
\* @functools.lru_cache(maxsize=32)
MaxSize == 32

\* user_roles as the caller passes them: tuple(user_roles), in the order the identity
\* service lists them
RoleTuples == {<<"sales">>, <<"sales", "admin">>, <<"admin", "sales">>}

\* variant: a cache keyed on the workflow id alone
CacheKeyWorkflowOnly(self, workflow_id, user_roles) == <<0, workflow_id, <<>>>>

\* lru_cache on a method: the key is made of all positional arguments, self included
CacheKey(self, workflow_id, user_roles) == <<self, workflow_id, user_roles>>

\* the place of a key in the cache, 0 if it has none
CacheIndex(c, key) ==
  IF \E i \in 1..Len(c) : c[i].key = key
    THEN CHOOSE i \in 1..Len(c) : c[i].key = key
  ELSE 0

Without(c, i) == SubSeq(c, 1, i - 1) \o SubSeq(c, i + 1, Len(c))

\* WorkflowManager.get_steps_by_workflow_id under lru_cache: a hit returns the stored
\* value and makes the entry the most recent; a miss asks the service, stores the
\* answer (None included) and drops the least recent entry beyond maxsize
CachedGetStepsByWorkflowId(c, self, workflow_id, user_roles) ==
  LET key == CacheKey(self, workflow_id, user_roles)
      i == CacheIndex(c, key)
      value == GetStepsByWorkflowId(workflow_id, Range(user_roles))
      grown == Append(c, [key |-> key, value |-> value])
  IN IF i # 0
       THEN [result |-> c[i].value, cached |-> TRUE, cache |-> Append(Without(c, i), c[i])]
     ELSE [result |-> value, cached |-> FALSE,
           cache |-> IF Len(grown) > MaxSize THEN Tail(grown) ELSE grown]

\* ------------------------------------------------------------------- state
VARIABLES
  rs,         \* per request slot: the run state and the position in the turn
  journal,    \* workflow_run table: step_run_id -> row
  nextId,     \* the next fresh step-run id (uuid4)
  now,        \* the clock read by datetime.now()
  ended,      \* per run: how its last turn ended
  shared,     \* whether the runtime hands should_continue the state object it keeps
  cache,      \* lru_cache of get_steps_by_workflow_id: entries, least recently used first
  managers,   \* how many WorkflowManager instances have been made
  answers     \* per (workflow_id, user_roles): what the memoised lookup has returned

vars == <<rs, journal, nextId, now, ended, shared, cache, managers, answers>>

\* the memoised catalogue lookup, which no step of a turn reads after its own call
memo == <<cache, managers, answers>>

Init ==
  /\ rs = [s \in Slots |-> IdleState]
  /\ journal = [i \in {} |-> NoEnd]
  /\ nextId = 1
  /\ now = 1
  /\ ended = [r \in Runs |-> NoEnd]
  /\ shared \in BOOLEAN
  /\ cache = <<>>
  /\ managers = 0
  /\ answers = [k \in RequestIds \X RoleTuples |-> {}]

CurStep(st) == StepDetail(st.workflow_id, st.cur)

\* WorkflowAgentExecutor.execute -> main -> process_workflow, up to graph.ainvoke
Start(s) ==
  /\ \A t \in Slots : rs[t].pc = "idle"
  /\ nextId <= MaxId
  /\ \E run \in Runs, wf \in RequestIds, token \in Tokens, inp \in Inputs, flag \in BOOLEAN :
       rs' = [rs EXCEPT ![s] = SeedState(journal, run, wf, token, inp[1], inp[2], flag)]
  /\ UNCHANGED <<journal, nextId, now, ended, shared, memo>>

\* wrapper: draw a step-run id if there is none, begin write
BeginWrite(s) ==
  LET st == rs[s]
      id == IF st.current_step_run_id = 0 THEN nextId ELSE st.current_step_run_id
      row == Row(st, st.cur, now, 0, Working, StateSnapshot(st.workflow_state), NULL, NULL, 0)
  IN /\ st.pc = "begin"
     /\ journal' = InitialUpsert(journal, id, row)
     /\ nextId' = IF st.current_step_run_id = 0 THEN nextId + 1 ELSE nextId
     /\ now' = now + 1
     /\ rs' = [rs EXCEPT ![s] = [st EXCEPT !.pc = "body", !.current_step_run_id = id,
                                           !.started_at = now, !.nsteps = @ + 1]]
     /\ UNCHANGED <<ended, shared, memo>>

\* wrapper: the handler body, then the finish write and a fresh id, or the error write
Handler(s) ==
  LET st == rs[s]
      step == CurStep(st)
      id == st.current_step_run_id
  IN /\ st.pc = "body"
     /\ \E outcome \in OutcomesFor(step) :
          LET res == RunHandler(step, st, outcome)
              ts == res.st.task_state
              final == WithExecutionPhase(res.st.workflow_state, ts)
              status == FinishStatus(ts)
              fresh == RegenerateStepRunId(ts, id, nextId)
          IN IF res.raised
               THEN /\ journal' = ErrorUpsert(journal, id,
                          Row(st, st.cur, st.started_at, now, Failed,
                              ErrorSnapshot(res.st.workflow_state), NULL, res.exc, now))
                    /\ rs' = [rs EXCEPT ![s] = [res.st EXCEPT !.pc = "raised"]]
                    /\ nextId' = nextId
             ELSE /\ journal' = CompletionUpsert(journal, id,
                          Row(st, st.cur, st.started_at, now, status, StateSnapshot(final),
                              IF status = Failed THEN NULL ELSE "success",
                              IF status = Failed THEN "error" ELSE NULL, now))
                  /\ rs' = [rs EXCEPT ![s] = [res.st EXCEPT !.pc = "route",
                                                          !.workflow_state = final,
                                                          !.current_step_run_id = fresh]]
                  /\ nextId' = IF fresh = id THEN nextId ELSE nextId + 1
     /\ now' = now + 1
     /\ UNCHANGED <<ended, shared, memo>>

\* the conditional edge of the step that just ran, if it has one
Route(s) ==
  LET st == rs[s]
      scope == EdgeScope(StepIdsOf(st.workflow_id), st.start_step_id)
      edge == ShouldContinue(st, CurStep(st).next_step_id, scope)
      after == IF shared THEN edge.st ELSE st
  IN /\ st.pc = "route"
     /\ rs' = [rs EXCEPT ![s] =
                 IF st.cur \notin scope THEN [st EXCEPT !.pc = "reply"]
                 ELSE IF edge.target = END THEN [after EXCEPT !.pc = "reply"]
                 ELSE IF st.nsteps >= MaxSteps THEN [after EXCEPT !.pc = "raised"]
                 ELSE [after EXCEPT !.pc = "begin", !.cur = edge.target,
                                    !.via = IF st.go_to_step_id # NULL THEN "go_to" ELSE "next"]]
     /\ UNCHANGED <<journal, nextId, now, ended, shared, memo>>

\* process_workflow projects the terminal state into ReplyOf(rs[s]); execute
\* enqueues the message
Reply(s) ==
  /\ rs[s].pc = "reply"
  /\ ended' = [ended EXCEPT ![rs[s].workflow_run_id] = EndOf(rs[s])]
  /\ rs' = [rs EXCEPT ![s] = IdleState]
  /\ UNCHANGED <<journal, nextId, now, shared, memo>>

\* an exception leaves process_workflow and execute: no message is produced
Propagate(s) ==
  /\ rs[s].pc = "raised"
  /\ ended' = IF rs[s].nsteps = 0 THEN ended
              ELSE [ended EXCEPT ![rs[s].workflow_run_id] = [NoEnd EXCEPT !.task_state = "raised"]]
  /\ rs' = [rs EXCEPT ![s] = IdleState]
  /\ UNCHANGED <<journal, nextId, now, shared, memo>>

Next ==
  \E s \in Sequential :
    \/ Start(s)
    \/ BeginWrite(s)
    \/ Handler(s)
    \/ Route(s)
    \/ Reply(s)
    \/ Propagate(s)

Spec == Init /\ [][Next]_vars

\* ------------------------------------------------- requests served in parallel
\* execute -> main -> process_workflow while another request is in flight: each
\* request has a manager, an executor, a graph and a WorkflowState of its own
StartParallel(s) ==
  /\ rs[s].pc = "idle"
  /\ nextId <= MaxParallelId
  /\ \E run \in Runs, inp \in ParallelInputs :
       rs' = [rs EXCEPT ![s] = SeedState(journal, run, "CONF", "tok_admin", inp[1], inp[2], TRUE)]
  /\ UNCHANGED <<journal, nextId, now, ended, shared, memo>>

ParallelNext ==
  \E s \in Slots :
    \/ StartParallel(s)
    \/ BeginWrite(s)
    \/ Handler(s)
    \/ Route(s)
    \/ Reply(s)
    \/ Propagate(s)

ParallelSpec == Init /\ [][ParallelNext]_vars

\* ------------------------------------------- the memoised lookup by itself
\* main: workflow_manager = WorkflowManager()
NewManager ==
  /\ managers < MaxManagers
  /\ managers' = managers + 1
  /\ UNCHANGED <<rs, journal, nextId, now, ended, shared, cache, answers>>

\* one call of get_steps_by_workflow_id on one of the managers made so far
CallGetSteps ==
  /\ \E self \in 1..managers, workflow_id \in RequestIds, user_roles \in RoleTuples :
       LET call == CachedGetStepsByWorkflowId(cache, self, workflow_id, user_roles) IN
       /\ call.cached \/ Len(cache) < MaxEntries
       /\ cache' = call.cache
       /\ answers' = [answers EXCEPT ![<<workflow_id, user_roles>>] =
                        @ \cup {[result |-> call.result, cached |-> call.cached]}]
  /\ UNCHANGED <<rs, journal, nextId, now, ended, shared, managers>>

CacheNext == NewManager \/ CallGetSteps

\* process_workflow's own lookup is the first call on a manager made for the request
\* (a miss, modelled in SeedState by the lookup itself); CacheSpec explores the
\* method under any number of calls on any of the managers
CacheSpec == Init /\ [][CacheNext]_vars

\* ------------------------------------------------------------------ claims
Terminal == {Completed, Failed, Canceled, InputRequired}

RowsOf(run) == {i \in DOMAIN journal : journal[i].workflow_run_id = run}

\* the first request of a turn is being seeded in this step
Seeded(s) == rs[s].pc = "idle" /\ rs'[s].pc = "begin"

\* C1 - Resume fidelity: when the last turn of a run ended input-required at step S,
\* the next request of that run that starts executing starts at S, is not a new
\* conversation, writes to the suspended row's step-run id and holds the scratchpad
\* the suspending turn ended with, whatever the request itself carries.
C1_ResumeFidelity ==
  [][\A s \in Slots :
       (Seeded(s) /\ ended[rs'[s].workflow_run_id].task_state = InputRequired)
         => LET last == ended[rs'[s].workflow_run_id] IN
            /\ rs'[s].start_step_id = last.step_id
            /\ rs'[s].cur = last.step_id
            /\ ~rs'[s].is_new_conversation
            /\ rs'[s].current_step_run_id = last.step_run_id
            /\ rs'[s].workflow_id = last.workflow_id
            /\ rs'[s].workflow_state = last.workflow_state]_vars

\* a resume is starting, requested under another workflow id than the suspended one
C1_Witness ==
  \E s \in Slots :
    /\ rs[s].pc = "begin" /\ rs[s].nsteps = 0
    /\ ended[rs[s].workflow_run_id].task_state = InputRequired
    /\ rs[s].request_workflow_id # rs[s].workflow_id
    /\ rs[s].current_step_run_id \in DOMAIN journal
    /\ Has(rs[s].workflow_state, "ans")

\* C2 (as claimed) - a row that holds completed, failed, canceled or input-required
\* is never set back to working.
C2_StatusNeverBackToWorking ==
  [][\A i \in DOMAIN journal :
       journal[i].status \in Terminal => journal'[i].status # Working]_vars

\* C2 (amended) - a row that holds completed, failed or canceled never changes its
\* status again; a row that holds input-required changes only to working, and only
\* by the begin write of the turn that resumes its step.
C2_StatusForward ==
  [][\A i \in DOMAIN journal :
       /\ journal[i].status \in {Completed, Failed, Canceled}
            => journal'[i].status = journal[i].status
       /\ (journal[i].status = InputRequired /\ journal'[i].status # InputRequired)
            => /\ journal'[i].status = Working
               /\ \E s \in Slots :
                    /\ rs[s].pc = "begin" /\ rs[s].nsteps = 0 /\ ~rs[s].is_new_conversation
                    /\ rs[s].current_step_run_id = i
                    /\ rs[s].cur = journal[i].step_id
                    /\ rs[s].workflow_run_id = journal[i].workflow_run_id]_vars

\* a resumed row finished, and a later step of the same turn finished on a row of its own
C2_Witness ==
  \E i, k \in DOMAIN journal :
    /\ i < k
    /\ journal[i].workflow_run_id = journal[k].workflow_run_id
    /\ journal[i].status = Completed /\ journal[i].step_id = "A"
    /\ journal[k].status \in {Completed, Failed}
    /\ journal[i].started_at > journal[i].created_at

\* C3 - among the rows of one workflow-run-id at most one has status input-required.
C3_OnePendingRow ==
  \A run \in Runs :
    Cardinality({i \in RowsOf(run) : journal[i].status = InputRequired}) <= 1

\* a run was resumed and has suspended again
C3_Witness ==
  \E i, k \in DOMAIN journal :
    /\ i < k
    /\ journal[i].workflow_run_id = journal[k].workflow_run_id
    /\ journal[i].status = Completed /\ journal[i].step_id = "A"
    /\ journal[k].status = InputRequired

\* the user's text is one of the workflow's exit keywords in some letter case
TextIsExitKeyword(st) ==
  /\ st.input # NULL
  /\ \E k \in Catalogue[st.workflow_id].workflow_exit_keywords : Lower(st.input) = Lower(k)

\* C4 - Exit-keyword dominance: a USER_INPUT step whose user text is an exit keyword
\* in any letter case ends canceled with the terminated summary, ingests nothing,
\* evaluates no rule, and the turn ends after it.
C4_ExitKeywordDominance ==
  [][\A s \in Slots :
       LET st == rs[s] IN
       /\ (st.pc = "body" /\ rs'[s] # st /\ CurStep(st).type = "USER_INPUT" /\ TextIsExitKeyword(st))
            => /\ rs'[s].pc = "route"
               /\ rs'[s].task_state = Canceled
               /\ rs'[s].output = TerminatedSummary(st.workflow_id, Catalogue[st.workflow_id].name)
               /\ \A k \in Keys \ {"execution_phase"} :
                    rs'[s].workflow_state[k] = st.workflow_state[k]
               /\ rs'[s].input_data = st.input_data
               /\ rs'[s].go_to_step_id = st.go_to_step_id
               /\ rs'[s].trace.evaluated = {}
       /\ (st.pc = "route" /\ rs'[s] # st /\ CurStep(st).type = "USER_INPUT" /\ TextIsExitKeyword(st))
            => rs'[s].pc = "reply"]_vars

\* a resumed USER_INPUT step was canceled by a keyword sent in another letter case
C4_Witness ==
  \E s \in Slots :
    /\ rs[s].pc = "route"
    /\ CurStep(rs[s]).type = "USER_INPUT"
    /\ TextIsExitKeyword(rs[s])
    /\ rs[s].input \notin Catalogue[rs[s].workflow_id].workflow_exit_keywords
    /\ ~rs[s].is_new_conversation
    /\ rs[s].task_state = Canceled

\* the rules whose condition holds against a scratchpad
Holding(rules, ws) ==
  {i \in 1..Len(rules) : Has(ws, rules[i].var) /\ EvalCondition(rules[i], ws) = "true"}

Least(S) == CHOOSE i \in S : \A k \in S : i <= k

\* C5 - First-match wins: when a Resume-mode step returns and the conditions of one
\* or several rules hold, go-to-step-id is the target of the earliest of them and
\* no rule after it was evaluated.
C5_FirstMatchWins ==
  [][\A s \in Slots :
       LET st == rs[s]
           step == CurStep(st)
           rules == step.orchestration_rules
           held == Holding(rules, IngestReply(step, st.workflow_state, st.input, st.input_data))
       IN (st.pc = "body" /\ rs'[s].pc = "route" /\ rs'[s].trace.mode = "resume" /\ held # {})
            => /\ rs'[s].go_to_step_id = rules[Least(held)].go_to_step
               /\ \A i \in rs'[s].trace.evaluated : i <= Least(held)]_vars

\* a Resume-mode step returned after two rules held at once
C5_Witness ==
  \E s \in Slots :
    /\ rs[s].pc = "route"
    /\ rs[s].trace.mode = "resume"
    /\ Cardinality(Holding(CurStep(rs[s]).orchestration_rules, rs[s].trace.rules_ws)) >= 2
    /\ rs[s].go_to_step_id = "F"

\* C6 (as claimed) - Rule-variable cleanup: after a Resume-mode step that evaluated
\* rules, the variable of every evaluated rule is null in workflow-state and in
\* input-data.
C6_RuleVariablesNull ==
  \A s \in Slots :
    (rs[s].pc = "route" /\ rs[s].trace.mode = "resume")
      => \A i \in rs[s].trace.evaluated :
           LET var == CurStep(rs[s]).orchestration_rules[i].var IN
           /\ rs[s].workflow_state[var] = NULL
           /\ rs[s].input_data[var] \in {NULL, ABSENT}

IdentityKeys == {"token", "user_id"}

IsSystemAction(step) == step.type \notin {"USER_INPUT", "FINAL_RESPONSE"}

\* C7 (as claimed) - Token scrubbing: after any SYSTEM_ACTION step execution the
\* scratchpad contains neither a token key nor a user-id key.
C7_NoIdentityKeys ==
  \A s \in Slots :
    (rs[s].pc = "route" /\ IsSystemAction(CurStep(rs[s])))
      => \A k \in IdentityKeys : ~Has(rs[s].workflow_state, k)

\* C7 (amended) - after any SYSTEM_ACTION step execution that returns, whatever its
\* outcome, the scratchpad contains a token or user-id key only if the step's own
\* output_mapping wrote that key after a successful call, or the step has no inputs
\* and the key was in the scratchpad before the step.
C7_IdentityScrubbed ==
  [][\A s \in Slots :
       LET st == rs[s]
           step == CurStep(st)
       IN (st.pc = "body" /\ rs'[s].pc = "route" /\ IsSystemAction(step))
            => \A k \in IdentityKeys :
                 Has(rs'[s].workflow_state, k)
                   => \/ /\ rs'[s].task_state = Completed
                         /\ k \in Range(step.output_mapping)
                      \/ /\ ~step.inputs
                         /\ Has(st.workflow_state, k)]_vars

\* a system action with inputs ran into a timeout and left no identity key behind
C7_Witness ==
  \E s \in Slots :
    /\ rs[s].pc = "route"
    /\ IsSystemAction(CurStep(rs[s]))
    /\ CurStep(rs[s]).inputs
    /\ rs[s].trace.outcome = "timeout"
    /\ rs[s].task_state = Failed
    /\ \A k \in IdentityKeys : ~Has(rs[s].workflow_state, k)

\* the keys of a stored snapshot, and the value stored under one
SnapshotKeys(row) == {p[1] : p \in row.workflow_state.doc}
SnapshotValue(row, k) == (CHOOSE p \in row.workflow_state.doc : p[1] = k)[2]

C9_StoppedStepEndsTurn ==
  \A s \in Slots :
    LET st == rs[s]
        scope == EdgeScope(StepIdsOf(st.workflow_id), st.start_step_id)
    IN (st.pc = "route" /\ st.cur \in scope /\ st.task_state \in {InputRequired, Failed, Canceled})
         => ShouldContinue(st, CurStep(st).next_step_id, scope).target = END

\* C10 (as claimed) - go-to-step-id is consumed on use: it is null when the handler
\* of the step it routed to starts.
C10_GoToConsumed ==
  \A s \in Slots :
    (rs[s].pc \in {"begin", "body"} /\ rs[s].via = "go_to") => rs[s].go_to_step_id = NULL

\* the Resume condition of a USER_INPUT step, read off the run state
ResumeCondition(st) ==
  /\ ~st.is_new_conversation
  /\ st.cur = st.start_step_id
  /\ st.go_to_step_id = NULL

\* a USER_INPUT handler body is executing in this step
UserInputRuns(s) ==
  /\ rs[s].pc = "body" /\ rs'[s] # rs[s]
  /\ CurStep(rs[s]).type = "USER_INPUT"

\* C11 (as claimed) - Mode selection: a USER_INPUT step runs in Resume mode exactly
\* when is-new-conversation is false, the step is the start step and go-to-step-id is
\* null; in every other case it ends input-required with the rendered user_message
\* as output, whatever the user's free text is.
C11_PromptWhateverTheText ==
  [][\A s \in Slots :
       UserInputRuns(s) =>
         /\ ResumeCondition(rs[s]) <=> rs'[s].trace.mode \in {"resume", "decline"}
         /\ ~ResumeCondition(rs[s]) =>
              /\ rs'[s].pc = "route"
              /\ rs'[s].task_state = InputRequired
              /\ rs'[s].output = Rendered(CurStep(rs[s]).user_message)]_vars

\* C11 (amended) - Mode selection: a USER_INPUT step whose user text is not an exit
\* keyword runs in Resume mode (it ingests the reply and never ends input-required)
\* exactly when is-new-conversation is false, the step is the start step and
\* go-to-step-id is null; in every other case it runs in Prompt mode: it clears
\* go-to-step-id, changes no scratchpad value, and ends input-required with the
\* rendered user_message as output.  A text that is an exit keyword cancels the step
\* in either case.
C11_ModeSelection ==
  [][\A s \in Slots :
       LET st == rs[s] IN
       UserInputRuns(s) =>
         IF TextIsExitKeyword(st)
           THEN rs'[s].task_state = Canceled /\ rs'[s].trace.mode = "exit"
         ELSE IF ResumeCondition(st)
           THEN /\ rs'[s].trace.mode \in {"resume", "decline"}
                /\ rs'[s].pc = "route" => rs'[s].task_state \in {Completed, Canceled}
         ELSE /\ rs'[s].trace.mode = "prompt"
              /\ rs'[s].pc = "route"
              /\ rs'[s].task_state = InputRequired
              /\ rs'[s].output = Rendered(CurStep(st).user_message)
              /\ rs'[s].go_to_step_id = NULL
              /\ rs'[s].workflow_state = st.workflow_state]_vars

\* a USER_INPUT step that is the start step of a resumed turn prompted, with a user
\* text at hand, because a rule had routed the turn back to it
C11_Witness ==
  \E s \in Slots :
    /\ rs[s].pc = "route"
    /\ CurStep(rs[s]).type = "USER_INPUT"
    /\ rs[s].trace.mode = "prompt"
    /\ ~rs[s].is_new_conversation
    /\ rs[s].cur = rs[s].start_step_id
    /\ rs[s].input # NULL
    /\ rs[s].task_state = InputRequired

\* a SYSTEM_ACTION handler body is executing in this step and its tool call timed out
TimedOut(s) ==
  /\ rs[s].pc = "body" /\ rs'[s] # rs[s]
  /\ IsSystemAction(CurStep(rs[s]))
  /\ rs'[s].trace.outcome = "timeout"

\* C12 - Tool timeout: a SYSTEM_ACTION step whose tool call exceeds its budget ends
\* failed with the summary 'Tool execution timeout: <name>', its journal row gets
\* status failed, the tool is not called again and no further step runs in the turn.
C12_TimeoutEndsTurn ==
  [][\A s \in Slots :
       /\ TimedOut(s) =>
            /\ rs'[s].pc = "route"
            /\ rs'[s].task_state = Failed
            /\ rs'[s].output = TimeoutSummary(CurStep(rs[s]).name)
            /\ journal'[rs[s].current_step_run_id].status = Failed
       /\ ( /\ rs[s].pc = "route" /\ rs'[s] # rs[s]
            /\ IsSystemAction(CurStep(rs[s]))
            /\ rs[s].trace.outcome = "timeout" ) => rs'[s].pc = "reply"]_vars

\* the output object has a summary field
HasSummary(output) == output.kind \notin {"empty"}

\* the rule evaluation of the Resume-mode execution just made hit a condition that
\* cannot be evaluated
EvalFailed(s) ==
  /\ UserInputRuns(s)
  /\ rs'[s].trace.mode = "resume"
  /\ \E i \in rs'[s].trace.evaluated :
       EvalCondition(CurStep(rs[s]).orchestration_rules[i], rs'[s].trace.rules_ws) = "error"

\* C13 - Condition evaluation failure: when a rule's condition cannot be evaluated at
\* a resumed USER_INPUT step the run ends cleanly as failed: the step hands a failed
\* state with an output summary to the runtime, which replies with it, and the
\* step's journal row has status failed.
C13_EvalFailureEndsCleanly ==
  [][\A s \in Slots :
       EvalFailed(s) =>
         /\ rs'[s].pc = "route"
         /\ rs'[s].task_state = Failed
         /\ HasSummary(rs'[s].output)
         /\ journal'[rs[s].current_step_run_id].status = Failed]_vars

\* C14 - User-visible failure: every reply whose task-state is failed or canceled
\* carries an output object with a summary field.
C14_FailureCarriesSummary ==
  \A s \in Slots :
    (rs[s].pc = "reply" /\ rs[s].task_state \in {Failed, Canceled})
      => HasSummary(ReplyOf(rs[s]).output)

\* a handler body is executing in this step and leaves with an exception
HandlerRaises(s) ==
  /\ rs[s].pc = "body"
  /\ rs'[s].pc = "raised"

\* C15 - Exception row: when a step handler raises, the journal row keyed by the
\* current step-run id is written with status failed and the exception's text and
\* type in error-response before the exception propagates; the request then ends
\* without a reply.
C15_ErrorRowThenPropagate ==
  [][\A s \in Slots :
       LET id == rs[s].current_step_run_id IN
       /\ HandlerRaises(s) =>
            /\ id \in DOMAIN journal /\ journal[id].status = Working
            /\ journal'[id].status = Failed
            /\ journal'[id].step_id = rs[s].cur
            /\ journal'[id].workflow_run_id = rs[s].workflow_run_id
            /\ journal'[id].error_response.error # NULL
            /\ journal'[id].error_response.exception_type =
                 (IF CurStep(rs[s]).type = "USER_INPUT" THEN "ValueError" ELSE "AttributeError")
            /\ journal'[id].workflow_state.shape = "error"
            /\ rs'[s].current_step_run_id = id
       /\ (rs[s].pc = "raised" /\ rs'[s] # rs[s]) =>
            /\ rs'[s].pc = "idle"
            /\ journal' = journal
            /\ rs[s].nsteps > 0 => ended'[rs[s].workflow_run_id].task_state = "raised"]_vars

\* the write to the inputs bag of a system action raised: its row is failed and names
\* the AttributeError, and the exception is on its way to the caller
C15_Witness ==
  \E s \in Slots :
    /\ rs[s].pc = "raised"
    /\ rs[s].nsteps > 0
    /\ rs[s].current_step_run_id \in DOMAIN journal
    /\ journal[rs[s].current_step_run_id].status = Failed
    /\ journal[rs[s].current_step_run_id].workflow_state.shape = "error"
    /\ journal[rs[s].current_step_run_id].error_response.exception_type = "AttributeError"

\* a handler body is executing in this step and returns normally
HandlerReturns(s) ==
  /\ rs[s].pc = "body"
  /\ rs'[s].pc = "route"

\* C16 - Finish status: when a handler returns normally the finish write stores
\* failed if the handler left task-state failed, canceled if canceled, input-required
\* if suspended and completed otherwise; a finished row never keeps status working.
C16_FinishStatus ==
  [][\A s \in Slots :
       LET id == rs[s].current_step_run_id
           left == rs'[s].task_state
       IN HandlerReturns(s) =>
            /\ journal'[id].status =
                 (CASE left = Failed -> Failed
                    [] left = Canceled -> Canceled
                    [] left = InputRequired -> InputRequired
                    [] OTHER -> Completed)
            /\ journal'[id].status # Working
            /\ journal'[id].completed_at = now]_vars

\* one run has a canceled row and a completed row, another run is suspended
C16_Witness ==
  /\ \E i \in DOMAIN journal : journal[i].status = Canceled
  /\ \E i \in DOMAIN journal : journal[i].status = Completed
  /\ \E i \in DOMAIN journal : journal[i].status = InputRequired

\* a request is being taken up in this step
Requested(s) == rs[s].pc = "idle" /\ rs'[s].pc # "idle"

\* the workflow the request resolves to is one the caller's roles may not read
Unauthorised(st) ==
  /\ st.workflow_id \in WorkflowIds
  /\ Catalogue[st.workflow_id].roles \cap RolesOf(st.token) = {}

\* C17 - Unauthorised: when none of the caller's roles is authorised for the
\* workflow, the request fails with workflow-not-found exactly as it does for a
\* workflow id that does not exist, no step handler runs and no journal row is
\* written or changed.
C17_UnauthorisedIsNotFound ==
  [][\A s \in Slots :
       /\ (Requested(s) /\ (Unauthorised(rs'[s]) \/ rs'[s].workflow_id \notin WorkflowIds)) =>
            /\ rs'[s].pc = "raised"
            /\ rs'[s].trace.mode = "workflow-not-found"
            /\ rs'[s].nsteps = 0 /\ rs'[s].cur = NULL
            /\ journal' = journal
       /\ (rs[s].pc = "raised" /\ rs[s].trace.mode = "workflow-not-found" /\ rs'[s] # rs[s]) =>
            /\ rs'[s].pc = "idle"
            /\ journal' = journal
            /\ ended' = ended]_vars

\* a caller without the admin role asks to go on with a suspended CONF run
C17_Witness ==
  \E s \in Slots :
    /\ rs[s].pc = "raised"
    /\ Unauthorised(rs[s])
    /\ rs[s].nsteps = 0
    /\ ended[rs[s].workflow_run_id].task_state = InputRequired
    /\ \E i \in DOMAIN journal :
         journal[i].workflow_run_id = rs[s].workflow_run_id /\ journal[i].status = InputRequired

\* the input-required rows of a run
PendingRows(run) == {i \in RowsOf(run) : journal[i].status = InputRequired}

\* C18 - Pending workflow id: when an input-required row exists for the request's
\* task-id, the workflow that is looked up, loaded and executed is the one named by
\* that row, not the one the request names; the request's workflow id is used only
\* when there is no such row.
C18_PendingWorkflowId ==
  [][\A s \in Slots :
       LET st == rs'[s]
           pending == PendingRows(st.workflow_run_id)
       IN Requested(s) =>
            /\ \A i \in pending : st.workflow_id = journal[i].workflow_id
            /\ pending = {} => st.workflow_id = st.request_workflow_id
            /\ st.pc = "begin" =>
                 /\ st.workflow_name = Catalogue[st.workflow_id].name
                 /\ st.worflow_exit_keywords = Catalogue[st.workflow_id].workflow_exit_keywords
                 /\ st.cur \in Range(StepIdsOf(st.workflow_id))]_vars

\* a suspended SWAP run goes on under a request that names a workflow the catalogue
\* does not know
C18_Witness ==
  \E s \in Slots :
    /\ rs[s].pc = "body"
    /\ rs[s].nsteps = 1
    /\ ~rs[s].is_new_conversation
    /\ rs[s].request_workflow_id = "GHOST"
    /\ rs[s].workflow_id = "SWAP"
    /\ rs[s].cur = "A"

\* the step ids of a workflow that no step names as its next_step_id, and the place
\* of a step id in the step list
Unreferenced(wf) ==
  {id \in Range(StepIdsOf(wf)) :
     \A n \in 1..Len(StepsOf(wf)) : StepsOf(wf)[n].next_step_id # id}
PlaceOf(wf, id) == CHOOSE n \in 1..Len(StepsOf(wf)) : StepsOf(wf)[n].step_id = id

\* a turn is starting in this step with no pending row for its run
FreshStart(s) ==
  /\ Requested(s) /\ rs'[s].pc = "begin"
  /\ PendingRows(rs'[s].workflow_run_id) = {}

\* the first handler of a turn is being entered in this step
FirstHandlerEntered(s) == rs[s].pc = "begin" /\ rs[s].nsteps = 0 /\ rs'[s].pc = "body"

\* C19 (as claimed) - Start step: on a fresh start start-step-id is the one step id
\* that no step names as its next_step_id, it is the only such step, and the first
\* handler executed in the turn is that step's.
C19_UniqueStartStep ==
  [][\A s \in Slots :
       /\ FreshStart(s) => Unreferenced(rs'[s].workflow_id) = {rs'[s].start_step_id}
       /\ (FirstHandlerEntered(s) /\ rs[s].is_new_conversation) =>
            rs'[s].cur = rs[s].start_step_id]_vars

\* C19 (amended) - Start step: on a fresh start start-step-id is the first step id in
\* list order that no step names as its next_step_id (there may be several such
\* steps, the targets that only an orchestration rule leads to among them), and the
\* first handler executed in the turn is that step's.
C19_FirstUnreferencedStep ==
  [][\A s \in Slots :
       LET wf == rs'[s].workflow_id
           start == rs'[s].start_step_id
       IN /\ FreshStart(s) =>
               /\ rs'[s].is_new_conversation
               /\ start \in Unreferenced(wf)
               /\ \A id \in Unreferenced(wf) : PlaceOf(wf, start) <= PlaceOf(wf, id)
               /\ rs'[s].cur = start
          /\ (FirstHandlerEntered(s) /\ rs[s].is_new_conversation) =>
               /\ rs'[s].cur = rs[s].start_step_id
               /\ rs'[s].start_step_id = rs[s].start_step_id]_vars

\* the first handler of a fresh CONF turn is running: step C, though step X is
\* named by no next_step_id either
C19_Witness ==
  \E s \in Slots :
    /\ rs[s].pc = "body" /\ rs[s].nsteps = 1
    /\ rs[s].is_new_conversation
    /\ rs[s].workflow_id = "CONF"
    /\ rs[s].cur = "C"
    /\ Unreferenced("CONF") = {"C", "X"}

\* the rows with status working
WorkingRows == {i \in DOMAIN journal : journal[i].status = Working}

\* the row written for the step a slot executed last: the one its begin write stamped
LastRowOf(st) ==
  {i \in DOMAIN journal : /\ journal[i].workflow_run_id = st.workflow_run_id
                          /\ journal[i].step_id = st.cur
                          /\ journal[i].started_at = st.started_at}

\* C20 - Ordering within a turn: while a handler body runs its row is there with
\* status working (the begin write came first); when the handler's state is with the
\* runtime, when the next step's begin write is due and when the reply is emitted,
\* no row is working any more and the row of the step executed last holds the status
\* of the state handed on (the finish write came first).
C20_WritesOrdered ==
  \A s \in Sequential :
    LET st == rs[s] IN
    /\ st.pc = "body" =>
         /\ st.current_step_run_id \in DOMAIN journal
         /\ WorkingRows = {st.current_step_run_id}
         /\ journal[st.current_step_run_id].step_id = st.cur
         /\ journal[st.current_step_run_id].started_at = st.started_at
    /\ st.pc \in {"idle", "begin", "route", "reply", "raised"} => WorkingRows = {}
    /\ st.pc \in {"route", "reply"} =>
         \E i \in LastRowOf(st) :
           /\ journal[i].status = st.task_state
           /\ journal[i].completed_at > journal[i].started_at
           /\ journal[i].updated_at = journal[i].completed_at
           /\ \A k \in DOMAIN journal : journal[k].updated_at <= journal[i].updated_at

\* a turn of three steps is about to reply, every write of it made
C20_Witness ==
  \E s \in Slots :
    /\ rs[s].pc = "reply"
    /\ rs[s].nsteps >= 3
    /\ rs[s].task_state = Completed
    /\ \E i \in LastRowOf(rs[s]) : journal[i].status = Completed

\* the runtime gives a turn up in this step: its successor function asks for yet
\* another handler when the step limit is reached
TurnGivenUp(s) == rs[s].pc = "route" /\ rs'[s].pc = "raised"

\* C21 - Termination: every turn halts at terminal-end after finitely many handler
\* invocations, for any orchestration rules and user input (the next_step_id links
\* of the catalogue's workflows form no cycle): the runtime never has to give a turn
\* up for running on.
C21_TurnReachesEnd ==
  [][\A s \in Slots : ~TurnGivenUp(s)]_vars

\* every row but one is as it was
OnlyRowChanged(id) ==
  /\ DOMAIN journal' = DOMAIN journal
  /\ \A i \in DOMAIN journal \ {id} : journal'[i] = journal[i]

\* C22 - Fresh step-run ids: after a step execution that ends with a status other
\* than input-required, current-step-run-id is an id no earlier step execution used,
\* so the next executed step writes a new journal row; and every handler invocation
\* makes exactly one row go from working to a terminal status.
C22_FreshStepRunId ==
  [][\A s \in Slots :
       LET id == rs[s].current_step_run_id IN
       /\ (HandlerReturns(s) /\ rs'[s].task_state # InputRequired) =>
            /\ rs'[s].current_step_run_id # id
            /\ rs'[s].current_step_run_id \notin DOMAIN journal'
       /\ (rs[s].pc = "begin" /\ rs[s].nsteps > 0 /\ rs'[s].pc = "body") =>
            /\ id \notin DOMAIN journal
            /\ DOMAIN journal' = DOMAIN journal \cup {id}
            /\ \A i \in DOMAIN journal : journal'[i] = journal[i]
            /\ journal'[id].status = Working
       /\ (HandlerReturns(s) \/ HandlerRaises(s)) =>
            /\ journal[id].status = Working
            /\ journal'[id].status \in Terminal
            /\ OnlyRowChanged(id)]_vars

\* the second step of a turn is about to write its row under an id the journal has
\* not seen, the first step's row being completed
C22_Witness ==
  \E s \in Slots :
    /\ rs[s].pc = "begin"
    /\ rs[s].nsteps = 1
    /\ rs[s].current_step_run_id \notin DOMAIN journal
    /\ \E i \in RowsOf(rs[s].workflow_run_id) :
         journal[i].status = Completed /\ journal[i].started_at = rs[s].started_at

\* C23 - Frame of a conflicting write: a step that writes to a step-run id the journal
\* already holds leaves that row's workflow_run_id, workflow_id, step_id, started_at
\* and created_at as they were (it may change completed_at, status, workflow_state,
\* the two responses and updated_at), the begin write of a resumed step included.
C23_ConflictFrame ==
  [][\A i \in DOMAIN journal :
       /\ journal'[i].workflow_run_id = journal[i].workflow_run_id
       /\ journal'[i].workflow_id = journal[i].workflow_id
       /\ journal'[i].step_id = journal[i].step_id
       /\ journal'[i].started_at = journal[i].started_at
       /\ journal'[i].created_at = journal[i].created_at]_vars

\* C24 - in every reachable journal a row of status working has completed_at null
\* (written 0 here), and a row of status completed, failed, canceled or
\* input-required has completed_at set and not earlier than its started_at.
C24_CompletedAtMatchesStatus ==
  \A i \in DOMAIN journal :
    /\ journal[i].status = Working => journal[i].completed_at = 0
    /\ journal[i].status \in Terminal =>
         journal[i].completed_at # 0 /\ journal[i].completed_at >= journal[i].started_at

\* the step being executed is a resumed USER_INPUT step whose first expected key is
\* confirm_action, and the user's text is 'no' or 'n' in some letter case
Declining(st) ==
  /\ CurStep(st).type = "USER_INPUT"
  /\ ~st.is_new_conversation
  /\ st.cur = st.start_step_id
  /\ Len(CurStep(st).expected_data_key) >= 1
  /\ CurStep(st).expected_data_key[1] = "confirm_action"
  /\ st.input # NULL
  /\ Lower(st.input) \in {"no", "n"}
  /\ ~TextIsExitKeyword(st)

\* C25 - Confirm decline: in Resume mode at a USER_INPUT step whose expected key is
\* confirm_action, a text reply of 'no' or 'n' in any letter case ends the step
\* canceled with summary 'Action cancelled by user', with or without input-data in
\* the same request; no orchestration rule is evaluated and the turn ends after it.
C25_ConfirmDecline ==
  [][\A s \in Slots :
       LET st == rs[s] IN
       /\ (st.pc = "body" /\ rs'[s] # st /\ Declining(st) /\ st.go_to_step_id = NULL)
            => /\ rs'[s].pc = "route"
               /\ rs'[s].task_state = Canceled
               /\ rs'[s].output = DeclinedSummary
               /\ rs'[s].trace.evaluated = {}
               /\ rs'[s].go_to_step_id = NULL
       /\ (st.pc = "route" /\ rs'[s] # st /\ Declining(st)
             /\ st.trace.mode \in {"resume", "decline"})
            => rs'[s].pc = "reply"]_vars

\* a SYSTEM_ACTION handler is returning in this step after a reply that its
\* error_mapping resolved to error_status 'error'
MappedError(s) ==
  /\ rs[s].pc = "body" /\ rs'[s] # rs[s]
  /\ IsSystemAction(CurStep(rs[s]))
  /\ rs'[s].trace.outcome = "mapped_error"

\* C26 - Mapped tool error: when the tool reply resolves through error_mapping to
\* error_status 'error', the SYSTEM_ACTION step ends failed with the mapped
\* error_message as summary, no value of the reply reaches workflow-state, and no
\* further step runs in the turn.
C26_MappedErrorEndsTurn ==
  [][\A s \in Slots :
       /\ MappedError(s) =>
            /\ rs'[s].pc = "route"
            /\ rs'[s].task_state = Failed
            /\ rs'[s].output = ErrorSummary("error_message")
            /\ \A k \in Keys \ {"token", "user_id", "execution_phase"} :
                 rs'[s].workflow_state[k] = rs[s].workflow_state[k]
       /\ ( /\ rs[s].pc = "route" /\ rs'[s] # rs[s]
            /\ IsSystemAction(CurStep(rs[s]))
            /\ rs[s].trace.outcome = "mapped_error" ) => rs'[s].pc = "reply"]_vars

\* the tool of a SYSTEM_ACTION step with a non-empty success_mapping has answered
\* without error, and the handler body is executing in this step
SucceedsWithSuccessMapping(s) ==
  /\ rs[s].pc = "body" /\ rs'[s] # rs[s]
  /\ IsSystemAction(CurStep(rs[s]))
  /\ CurStep(rs[s]).success_mapping
  /\ rs'[s].trace.outcome \in {"ok_x", "ok_null"}

\* C27 - Success mapping: a SYSTEM_ACTION step whose tool call succeeds and whose
\* definition has a non-empty success_mapping ends completed, its journal row gets
\* status completed, and the turn continues to the step's successor.
C27_SuccessMappingCompletes ==
  [][\A s \in Slots :
       /\ SucceedsWithSuccessMapping(s) =>
            /\ rs'[s].pc = "route"
            /\ rs'[s].task_state = Completed
            /\ journal'[rs[s].current_step_run_id].status = Completed
       /\ ( /\ rs[s].pc = "route" /\ rs'[s] # rs[s]
            /\ IsSystemAction(CurStep(rs[s]))
            /\ CurStep(rs[s]).success_mapping
            /\ rs[s].trace.outcome \in {"ok_x", "ok_null"}
            /\ rs[s].nsteps < MaxSteps )
            => rs'[s].pc = "begin" /\ rs'[s].cur = CurStep(rs[s]).next_step_id]_vars

\* the successor the snapshot st determines for the step st.cur that just ran:
\* END without an edge, else go_to_step_id if set, else END after input-required,
\* failed or canceled, else next_step_id if it is wired, else END
SuccessorOf(st) ==
  LET scope == EdgeScope(StepIdsOf(st.workflow_id), st.start_step_id)
      next == CurStep(st).next_step_id
  IN IF st.cur \notin scope THEN END
     ELSE IF st.go_to_step_id # NULL THEN st.go_to_step_id
     ELSE IF st.task_state \in {InputRequired, Failed, Canceled} THEN END
     ELSE IF next # NULL /\ next \in scope THEN next
     ELSE END

\* C28 - Determinism of routing: the successor taken after a step is a function of
\* the run-state snapshot and the step alone (go_to_step_id, task_state, the step's
\* next_step_id and the wired steps), so every evaluation at the same snapshot and
\* step takes the same successor, whatever the journal, the clock, the ids drawn or
\* the runtime's handling of the state object.
C28_RoutingDeterminism ==
  [][\A s \in Slots :
       (rs[s].pc = "route" /\ rs'[s] # rs[s]) =>
          LET target == SuccessorOf(rs[s]) IN
          /\ target = END => rs'[s].pc = "reply"
          /\ (target # END /\ rs[s].nsteps < MaxSteps) =>
               rs'[s].pc = "begin" /\ rs'[s].cur = target
          /\ (target # END /\ rs[s].nsteps >= MaxSteps) => rs'[s].pc = "raised"]_vars

\* the router was evaluated twice after the same step with go_to_step_id set, and
\* chose the same successor both times
C28_Witness ==
  \E s \in Slots :
    /\ rs[s].pc = "begin" /\ rs[s].via = "go_to"
    /\ rs[s].cur = "S" /\ rs[s].go_to_step_id = "S"
    /\ rs[s].nsteps >= 3

\* the wrapper's begin write is happening in this step
BeginWrites(s) == rs[s].pc = "begin" /\ rs'[s].pc = "body"

\* the VALUES row of the begin write of this step
BeginRow(s) ==
  Row(rs[s], rs[s].cur, now, 0, Working, StateSnapshot(rs[s].workflow_state), NULL, NULL, 0)

\* the VALUES row of the completion or error write of this step, read back from the
\* columns it set and from the run-state it was built from
FinishRow(s) ==
  [journal'[rs[s].current_step_run_id] EXCEPT
     !.workflow_run_id = rs[s].workflow_run_id, !.workflow_id = rs[s].workflow_id,
     !.step_id = rs[s].cur, !.started_at = rs[s].started_at,
     !.created_at = rs[s].started_at]

\* a write to id added no second row for it: the table has the rows it had, and one
\* more if id was new
NoDuplicateRow(id) ==
  /\ DOMAIN journal' = DOMAIN journal \cup {id}
  /\ Cardinality(DOMAIN journal') =
       Cardinality(DOMAIN journal) + (IF id \in DOMAIN journal THEN 0 ELSE 1)

C30_CacheCorrectness ==
  \A k \in RequestIds \X RoleTuples :
    \A a \in answers[k] :
      /\ a.result = GetStepsByWorkflowId(k[1], Range(k[2]))
      /\ a.result.found =>
           /\ k[1] \in WorkflowIds
           /\ Catalogue[k[1]].roles \cap Range(k[2]) # {}

\* one manager has answered the same (id, roles) from the service and then from its
\* cache with a definition, and an unauthorised caller of the same workflow was
\* refused while that entry was cached
C30_Witness ==
  \E k, u \in RequestIds \X RoleTuples :
    /\ k[1] = u[1]
    /\ \E a, b \in answers[k] : a.result.found /\ a.cached /\ ~b.cached
    /\ \E a \in answers[u] : ~a.result.found
    /\ \E i \in 1..Len(cache) : cache[i].key[2] = k[1] /\ cache[i].value.found

\* C31 - in every reply the workflow-id of the part metadata equals the workflow-id
\* of the data part, also when a resumed request names another workflow than the
\* pending row.
C31_MetadataWorkflowId ==
  \A s \in Slots :
    rs[s].pc = "reply" =>
      ReplyOf(rs[s]).metadata_workflow_id = ReplyOf(rs[s]).workflow_id

\* the rows of one run
RowsOfRun(j, run) == [i \in {k \in DOMAIN j : j[k].workflow_run_id = run} |-> j[i]]

\* the run the request in place s works for, in a step that place s takes
RunOf(s) == IF rs[s].pc = "idle" THEN rs'[s].workflow_run_id ELSE rs[s].workflow_run_id

\* C32 - Requests of different runs served in parallel do not affect each other: a
\* step of one request changes only that request's run state, rows that carry its
\* task-id as workflow-run-id and its own run's outcome; every row it writes carries
\* that task-id; and what a request starts from is determined by the rows of its own
\* run and by the request, whatever rows other runs have written in between.
C32_RunsIndependent ==
  [][\A s \in Slots :
       rs'[s] # rs[s] =>
         /\ \A t \in Slots \ {s} : rs'[t] = rs[t]
         /\ \A r \in Runs \ {RunOf(s)} : ended'[r] = ended[r]
         /\ \A i \in DOMAIN journal :
              journal[i].workflow_run_id # RunOf(s) => journal'[i] = journal[i]
         /\ \A i \in DOMAIN journal' :
              (i \notin DOMAIN journal \/ journal'[i] # journal[i])
                 => journal'[i].workflow_run_id = RunOf(s)
         /\ rs[s].pc = "idle" =>
              rs'[s] = SeedState(RowsOfRun(journal, RunOf(s)), RunOf(s),
                                 rs'[s].request_workflow_id, rs'[s].token,
                                 rs'[s].input, rs'[s].input_data, TRUE)]_vars

\* two requests of different runs are in flight, one resuming its run's pending row,
\* and each has made its begin write
C32_Witness ==
  \E s, t \in Slots :
    /\ rs[s].workflow_run_id # rs[t].workflow_run_id
    /\ rs[s].pc = "body" /\ ~rs[s].is_new_conversation
    /\ rs[t].pc = "body"
    /\ journal[rs[s].current_step_run_id].status = Working
    /\ journal[rs[t].current_step_run_id].status = Working

\* a USER_INPUT handler has run its rule loop in this step
RulesRun(s) == UserInputRuns(s) /\ rs'[s].trace.mode = "resume"

\* rule k of the step is reached by the loop over ws: no rule before it whose
\* variable is present has evaluated to true or failed to evaluate
Reached(rules, ws, k) ==
  \A j \in 1..(k - 1) : Has(ws, rules[j].var) => EvalCondition(rules[j], ws) = "false"

\* C33 - Rule skip: in Resume mode a rule whose condition names a variable absent
\* from workflow-state is not evaluated, sets no go-to-step-id and does not fail the
\* run, and the rules after it are evaluated in order as if it were not there.
C33_MissingVariableSkipsRule ==
  [][\A s \in Slots :
       RulesRun(s) =>
         LET rules == CurStep(rs[s]).orchestration_rules
             ws == rs'[s].trace.rules_ws
             present == {k \in 1..Len(rules) : Has(ws, rules[k].var)}
             hits == {k \in present : Reached(rules, ws, k) /\ EvalCondition(rules[k], ws) = "true"}
             errors == {k \in present : Reached(rules, ws, k) /\ EvalCondition(rules[k], ws) = "error"}
         IN /\ rs'[s].trace.evaluated = {k \in present : Reached(rules, ws, k)}
            /\ (rs'[s].pc = "raised") = (errors # {})
            /\ rs'[s].pc = "route" =>
                 /\ hits = {} => rs'[s].go_to_step_id = NULL
                 /\ \A k \in hits : rs'[s].go_to_step_id = rules[k].go_to_step]_vars

\* a rule with an absent variable was passed over and a rule after it set the target
C33_Witness ==
  \E s \in Slots :
    /\ rs[s].pc = "route" /\ rs[s].trace.mode = "resume"
    /\ LET rules == CurStep(rs[s]).orchestration_rules IN
       \E i, k \in 1..Len(rules) :
         /\ i < k
         /\ ~Has(rs[s].trace.rules_ws, rules[i].var)
         /\ k \in rs[s].trace.evaluated
         /\ rs[s].go_to_step_id = rules[k].go_to_step

\* a USER_INPUT handler has ingested the reply in this step; Ingested(s) is the
\* scratchpad as the ingest left it, before any rule ran
Ingests(s) == UserInputRuns(s) /\ rs'[s].trace.mode \in {"resume", "decline"}
Ingested(s) ==
  IF rs'[s].trace.mode = "resume" THEN rs'[s].trace.rules_ws ELSE rs'[s].workflow_state

\* C34 - Ingest frame: in Resume mode the ingest writes to workflow-state only keys
\* listed in expected_data_key: with non-empty input-data the listed keys present in
\* it are copied and the free text is not used; with empty input-data the free text
\* goes to the first expected key only; every other key keeps its value.
C34_IngestFrame ==
  [][\A s \in Slots :
       Ingests(s) =>
         LET st == rs[s]
             expected == CurStep(st).expected_data_key
             listed == {expected[i] : i \in 1..Len(expected)}
             sent == {k \in Keys : st.input_data[k] # ABSENT}
         IN \A k \in Keys \ {"execution_phase"} :
              Ingested(s)[k] =
                IF sent # {} /\ Len(expected) > 0
                  THEN IF k \in listed /\ k \in sent THEN st.input_data[k]
                       ELSE st.workflow_state[k]
                ELSE IF st.input # NULL /\ Len(expected) >= 1 /\ k = expected[1]
                  THEN st.input
                ELSE st.workflow_state[k]]_vars

\* input-data with a key the step does not list was ingested: the listed key was
\* copied and the other one was not
C34_Witness ==
  \E s \in Slots :
    /\ rs[s].pc = "route" /\ rs[s].trace.mode = "resume"
    /\ rs[s].input_data["ans"] = "x"
    /\ rs[s].trace.rules_ws["sel"] = "y"
    /\ rs[s].trace.rules_ws["ans"] # "x"
    /\ "ans" \notin {CurStep(rs[s]).expected_data_key[i] :
                       i \in 1..Len(CurStep(rs[s]).expected_data_key)}

\* a step has ended with task_state completed and go_to_step_id null, and the
\* runtime is about to choose what follows it
CompletedWithoutGoTo(s) ==
  /\ rs[s].pc = "route"
  /\ rs[s].task_state = Completed
  /\ rs[s].go_to_step_id = NULL
  /\ rs[s].nsteps < MaxSteps

RanBeforeStart(s) ==
  LET st == rs[s]
      step_ids == StepIdsOf(st.workflow_id)
  IN /\ st.pc = "route"
     /\ st.nsteps < MaxSteps
     /\ \E i, j \in 1..Len(step_ids) :
          /\ step_ids[i] = st.cur
          /\ step_ids[j] = st.start_step_id
          /\ i < j

\* C36 - Orchestration-driven re-entry: after a rule has routed to a step that
\* precedes start_step_id and that step has executed, the turn goes on as it would
\* after a step inside edge-scope: to the successor should_continue chooses for the
\* state the step left (its next_step_id when it completed), and to terminal-end
\* only when that function says so.
C36_ReentryContinues ==
  [][\A s \in Slots :
       (RanBeforeStart(s) /\ rs'[s] # rs[s]) =>
          LET st == rs[s]
              scope == EdgeScope(StepIdsOf(st.workflow_id), st.start_step_id)
              target == ShouldContinue(st, CurStep(st).next_step_id, scope).target
          IN IF target = END THEN rs'[s].pc = "reply"
             ELSE rs'[s].pc = "begin" /\ rs'[s].cur = target]_vars

\* the handler of a FINAL_RESPONSE step is running
FinalResponseRuns(s) == rs[s].pc = "body" /\ CurStep(rs[s]).type = "FINAL_RESPONSE"

\* a FINAL_RESPONSE step has ended with task_state failed
FinalResponseFailed(s) ==
  /\ rs[s].pc = "route"
  /\ CurStep(rs[s]).type = "FINAL_RESPONSE"
  /\ rs[s].task_state = Failed

\* C37 - A FINAL_RESPONSE step clears go_to_step_id and ends with task_state
\* completed and the output taken from the rendered user_message; when user_message
\* is absent it ends with task_state failed, its journal row has status failed, and
\* no further step executes: the reply comes next.
C37_FinalResponse ==
  [][\A s \in Slots :
       /\ (FinalResponseRuns(s) /\ rs'[s] # rs[s]) =>
            LET message == CurStep(rs[s]).user_message
                id == rs[s].current_step_run_id
            IN /\ rs'[s].pc = "route"
               /\ rs'[s].go_to_step_id = NULL
               /\ message # NULL =>
                    /\ rs'[s].task_state = Completed
                    /\ rs'[s].output = [kind |-> "rendered", a |-> message, b |-> NULL]
                    /\ journal'[id].status = Completed
               /\ message = NULL =>
                    /\ rs'[s].task_state = Failed
                    /\ journal'[id].status = Failed
       /\ (FinalResponseFailed(s) /\ rs'[s] # rs[s]) =>
            /\ rs'[s].pc = "reply"
            /\ journal' = journal]_vars

\* a final response without user_message, reached through a rule while the runtime
\* had kept go_to_step_id naming it, has cleared the field and failed; its row is
\* failed and the reply is due
C37_Witness ==
  \E s \in Slots :
    /\ rs[s].pc = "reply"
    /\ rs[s].via = "go_to"
    /\ ~shared
    /\ CurStep(rs[s]).type = "FINAL_RESPONSE"
    /\ CurStep(rs[s]).user_message = NULL
    /\ rs[s].task_state = Failed
    /\ rs[s].go_to_step_id = NULL
    /\ \E i \in DOMAIN journal : journal[i].step_id = rs[s].cur /\ journal[i].status = Failed

\* a request in flight that adopted the pending row of its run and has begun to
\* execute the resumed step (or a step after it)
ExecutesResumed(s) ==
  /\ rs[s].pc \in {"body", "route", "reply"}
  /\ ~rs[s].is_new_conversation
  /\ rs[s].nsteps >= 1

\* C38 - A pending input-required row is resumed by at most one request: two
\* requests in flight with the same task-id never both execute the resumed step and
\* the steps after it.
C38_ResumedByOneRequest ==
  \A s, t \in Slots :
    (s # t /\ rs[s].workflow_run_id = rs[t].workflow_run_id) =>
       ~(ExecutesResumed(s) /\ ExecutesResumed(t))

\* the task states a turn may end with
EndStates == {InputRequired, Completed, Failed, Canceled}

\* C39 - Every reply returned to the caller has task_state input-required,
\* completed, failed or canceled: no handler hands on, no finish write records and
\* no reply carries task_state working.
C39_ReplyNeverWorking ==
  [][\A s \in Slots :
       /\ HandlerReturns(s) =>
            /\ rs'[s].task_state \in EndStates
            /\ journal'[rs[s].current_step_run_id].status \in EndStates
       /\ (rs[s].pc = "reply" /\ rs'[s] # rs[s]) =>
            /\ ReplyOf(rs[s]).task_state \in EndStates
            /\ ended'[rs[s].workflow_run_id].task_state \in EndStates
            /\ \A i \in DOMAIN journal : journal[i].status \in EndStates]_vars

\* a turn ended by an exit keyword is about to be answered with task_state canceled,
\* while earlier handlers of the journal ended completed and failed
C39_Witness ==
  \E s \in Slots :
    /\ rs[s].pc = "reply"
    /\ rs[s].task_state = Canceled
    /\ \E i, j \in DOMAIN journal :
         /\ journal[i].status = Completed
         /\ journal[j].status = Failed

\* a handler of a new conversation's turn takes its step
NewConversationStep(s) ==
  /\ rs[s].pc = "body" /\ rs'[s] # rs[s]
  /\ rs[s].is_new_conversation

\* C40 - On a turn with no pending input-required row (a new conversation) no
\* orchestration rule is evaluated, go_to_step_id is never set, and no step writes
\* the free text or input-data into workflow-state: the only scratchpad keys a
\* step changes are execution_phase and the output_mapping keys of a system action.
C40_NewConversationIngestsNothing ==
  [][\A s \in Slots :
       NewConversationStep(s) =>
         LET step == CurStep(rs[s]) IN
         /\ rs'[s].trace.mode \notin {"resume", "decline"}
         /\ rs'[s].trace.evaluated = {}
         /\ rs[s].go_to_step_id = NULL
         /\ rs'[s].go_to_step_id = NULL
         /\ \A k \in Keys :
              rs'[s].workflow_state[k] # rs[s].workflow_state[k] =>
                \/ k = "execution_phase"
                \/ IsSystemAction(step) /\ k \in Range(step.output_mapping)]_vars

\* a new conversation whose request carried input-data for the key its first
\* step expects has been prompted, and the scratchpad does not have the value
C40_Witness ==
  \E s \in Slots :
    /\ rs[s].pc = "reply"
    /\ rs[s].is_new_conversation
    /\ rs[s].cur = rs[s].start_step_id
    /\ CurStep(rs[s]).type = "USER_INPUT"
    /\ rs[s].input_data["sel"] = "x"
    /\ rs[s].workflow_state["sel"] = ABSENT
    /\ rs[s].task_state = InputRequired

====
